---- MODULE Spec2Model ----
(***************************************************************************)
(* Fishbowl Data Transformer (src/app.py): the NetSuite x Asana merge,     *)
(* the order-type inference and the SKU prefixing, as a state machine over *)
(* one run of the transform pipeline (src/app.py:315-327).                 *)
(*                                                                         *)
(* Text is a sequence of one-character strings, so that strip, upper,      *)
(* lower, startswith and the substring test are computed, not assumed.     *)
(* A DataFrame is [present, columns, rows]: present = FALSE is Python's    *)
(* None, rows is a sequence of functions from column header to text.       *)
(* An Optional row is <<>> (None) or <<row>>.                              *)
(***************************************************************************)
EXTENDS Integers, Sequences, FiniteSets, TLC

VARIABLES ns_df, asana_uv_df, asana_custom_df, uv_dict, custom_dict,
          merged_df, fb_df, pc, src_idx

vars == <<ns_df, asana_uv_df, asana_custom_df, uv_dict, custom_dict,
          merged_df, fb_df, pc, src_idx>>

\* ---------------------------------------------------------------------
\* Bounds
\* ---------------------------------------------------------------------
\* Rows of the NetSuite table.
MaxNs == 2
\* Rows of the two Asana tables together.
MaxBoardRows == 2
\* Length of an enumerated Item text.
MaxItemLen == 4

\* ---------------------------------------------------------------------
\* Python str operations
\* ---------------------------------------------------------------------
LOWER_LETTERS == <<"a","b","c","d","e","f","g","h","i","j","k","l","m","n","o","p","q","r","s","t","u","v","w","x","y","z">>
UPPER_LETTERS == <<"A","B","C","D","E","F","G","H","I","J","K","L","M","N","O","P","Q","R","S","T","U","V","W","X","Y","Z">>

IsSpace(c) == c = " "

\* the case mappings, as tables over the letters
UPPER_OF ==
    [c \in {LOWER_LETTERS[i] : i \in 1..26} |->
        UPPER_LETTERS[CHOOSE i \in 1..26 : LOWER_LETTERS[i] = c]]

LOWER_OF ==
    [c \in {UPPER_LETTERS[i] : i \in 1..26} |->
        LOWER_LETTERS[CHOOSE i \in 1..26 : UPPER_LETTERS[i] = c]]

upper_char(c) == IF c \in DOMAIN UPPER_OF THEN UPPER_OF[c] ELSE c

lower_char(c) == IF c \in DOMAIN LOWER_OF THEN LOWER_OF[c] ELSE c

str_upper(s) == [i \in 1..Len(s) |-> upper_char(s[i])]

str_lower(s) == [i \in 1..Len(s) |-> lower_char(s[i])]

RECURSIVE str_lstrip(_)
str_lstrip(s) ==
    IF s = <<>> THEN s
    ELSE IF IsSpace(Head(s)) THEN str_lstrip(Tail(s)) ELSE s

RECURSIVE str_rstrip(_)
str_rstrip(s) ==
    IF s = <<>> THEN s
    ELSE IF IsSpace(s[Len(s)]) THEN str_rstrip(SubSeq(s, 1, Len(s) - 1)) ELSE s

str_strip(s) == str_rstrip(str_lstrip(s))

startswith(s, p) == Len(s) >= Len(p) /\ SubSeq(s, 1, Len(p)) = p

\* sub in s
contains(s, sub) ==
    \E i \in 0..(Len(s) - Len(sub)) : SubSeq(s, i + 1, i + Len(sub)) = sub

\* re.sub(r"\s+", " ", s): every run of whitespace becomes one space
RECURSIVE collapse_ws(_)
collapse_ws(s) ==
    IF s = <<>> THEN s
    ELSE IF IsSpace(Head(s)) THEN <<" ">> \o collapse_ws(str_lstrip(Tail(s)))
    ELSE <<Head(s)>> \o collapse_ws(Tail(s))

\* ---------------------------------------------------------------------
\* Literals of the program
\* ---------------------------------------------------------------------
SECTION_COLUMN == <<"s","e","c","t","i","o","n","/","c","o","l","u","m","n">>
SECTION == <<"s","e","c","t","i","o","n">>
COLUMN == <<"c","o","l","u","m","n">>
COLOR_PRINT == <<"c","o","l","o","r"," ","p","r","i","n","t">>
AUTOMATED_CARDS == <<"a","u","t","o","m","a","t","e","d"," ","c","a","r","d","s">>
BLANK_VALUE == <<"b","l","a","n","k">>
UV_PRINTER == <<"u","v"," ","p","r","i","n","t","e","r">>
OT_UV == <<"U","V">>
OT_LASER == <<"L","A","S","E","R">>
OT_BLANK == <<"B","L","A","N","K">>
UV_PREFIX == <<"U","V","-">>
L_PREFIX == <<"L","-">>
COL_SONUM == <<"S","O","N","u","m">>
COL_DOCUMENT_NUMBER == <<"D","o","c","u","m","e","n","t"," ","N","u","m","b","e","r">>
\* Join key settings (defaults of the two text inputs)
key_ns == COL_SONUM
key_asana == COL_DOCUMENT_NUMBER
COL_ITEM == <<"I","t","e","m">>
COL_JOIN_KEY == <<"_","j","o","i","n","_","k","e","y">>
COL_ORDER_TYPE == <<"_","_","O","R","D","E","R","_","T","Y","P","E">>

STATUS_HEADERS == {SECTION_COLUMN, SECTION, COLUMN}

EMPTY == <<>>

NoneDf == [present |-> FALSE, columns |-> {}, rows |-> <<>>]

\* ---------------------------------------------------------------------
\* Helper functions of the program
\* ---------------------------------------------------------------------
normalize_col(s) == str_lower(collapse_ws(str_strip(s)))

\* dedupe_prefix that also upper-cases the SKU
dedupe_prefix_upper(sku, prefix) ==
    LET s == str_upper(str_strip(sku)) IN
    IF s = <<>> THEN s
    ELSE IF startswith(s, str_upper(prefix)) THEN s
    ELSE prefix \o s

\* dedupe_prefix without the double-prefix test
dedupe_prefix_always(sku, prefix) ==
    LET s == str_strip(sku) IN
    IF s = <<>> THEN s ELSE prefix \o s

dedupe_prefix(sku, prefix) ==
    LET s == str_strip(sku) IN
    IF s = <<>> THEN s
    ELSE IF startswith(str_upper(s), str_upper(prefix)) THEN s
    ELSE prefix \o s

dict_get(d, k) == IF k \in DOMAIN d THEN <<d[k]>> ELSE <<>>

\* infer_order_type with the UV board checked before the Custom/Laser board
infer_order_type_uv_first(netsuite_row, asana_row_uv, asana_row_custom) ==
    IF /\ asana_row_uv # <<>>
       /\ \E c \in DOMAIN asana_row_uv[1] :
             /\ normalize_col(c) = COLOR_PRINT
             /\ contains(str_lower(str_strip(asana_row_uv[1][c])), UV_PRINTER)
    THEN OT_UV
    ELSE IF /\ asana_row_custom # <<>>
            /\ \E c \in DOMAIN asana_row_custom[1] :
                  /\ normalize_col(c) \in STATUS_HEADERS
                  /\ str_lower(str_strip(asana_row_custom[1][c])) = BLANK_VALUE
    THEN OT_BLANK
    ELSE OT_LASER

infer_order_type(netsuite_row, asana_row_uv, asana_row_custom) ==
    IF /\ asana_row_custom # <<>>
       /\ \E c \in DOMAIN asana_row_custom[1] :
             /\ normalize_col(c) \in STATUS_HEADERS
             /\ str_lower(str_strip(asana_row_custom[1][c])) = BLANK_VALUE
    THEN OT_BLANK
    ELSE IF /\ asana_row_uv # <<>>
            /\ \E c \in DOMAIN asana_row_uv[1] :
                  /\ normalize_col(c) = COLOR_PRINT
                  /\ contains(str_lower(str_strip(asana_row_uv[1][c])), UV_PRINTER)
    THEN OT_UV
    ELSE OT_LASER

\* is_automated_cards comparing the raw value, not trimmed and not lower-cased
is_automated_cards_exact(asana_row) ==
    /\ asana_row # <<>>
    /\ \E k \in DOMAIN asana_row[1] :
          /\ normalize_col(k) \in STATUS_HEADERS
          /\ asana_row[1][k] = AUTOMATED_CARDS

is_automated_cards(asana_row) ==
    /\ asana_row # <<>>
    /\ \E k \in DOMAIN asana_row[1] :
          /\ normalize_col(k) \in STATUS_HEADERS
          /\ str_lower(str_strip(asana_row[1][k])) = AUTOMATED_CARDS

norm_key(s) == str_upper(str_strip(s))

build_default_mapping(netsuite_cols) ==
    (COL_DOCUMENT_NUMBER :>
        (IF COL_SONUM \in netsuite_cols THEN COL_SONUM ELSE COL_DOCUMENT_NUMBER))
    @@ (COL_ITEM :> (IF COL_ITEM \in netsuite_cols THEN COL_ITEM ELSE EMPTY))

apply_mapping(df, mapping) ==
    [present |-> TRUE,
     columns |-> DOMAIN mapping,
     rows    |-> [i \in 1..Len(df.rows) |->
                    [fb_col \in DOMAIN mapping |->
                        IF mapping[fb_col] # EMPTY /\ mapping[fb_col] \in df.columns
                        THEN df.rows[i][mapping[fb_col]]
                        ELSE EMPTY]]]

\* ---------------------------------------------------------------------
\* merge_asana
\* ---------------------------------------------------------------------
\* ns_df with the key column defaulted and "_join_key" added
with_join_key(df) ==
    [present |-> TRUE,
     columns |-> df.columns \cup {key_ns, COL_JOIN_KEY},
     rows    |-> [i \in 1..Len(df.rows) |->
                    LET raw == IF key_ns \in df.columns THEN df.rows[i][key_ns] ELSE EMPTY
                    IN  df.rows[i] @@ (key_ns :> raw) @@ (COL_JOIN_KEY :> norm_key(raw))]]

\* DataFrame.drop_duplicates(keep="first") on the key column: the kept row numbers
drop_duplicates(keys) ==
    {i \in DOMAIN keys : \A j \in 1..(i - 1) : keys[j] # keys[i]}

\* uv / custom frame -> lookup dict keyed by "_join_key"
build_dict(df) ==
    IF df.present /\ key_asana \in df.columns
    THEN LET keys == [i \in 1..Len(df.rows) |-> norm_key(df.rows[i][key_asana])]
             kept == drop_duplicates(keys)
         IN  [k \in {keys[i] : i \in kept} |->
                 df.rows[CHOOSE i \in kept : keys[i] = k]]
    ELSE <<>>

\* the loop as an inner join: a row matched by neither board is skipped too
merge_results_inner_join(ns, uvd, cud) ==
    LET visit(i) ==
            LET row        == ns.rows[i]
                k          == row[COL_JOIN_KEY]
                uv_row     == dict_get(uvd, k)
                custom_row == dict_get(cud, k)
            IN  [skip       |-> \/ is_automated_cards(uv_row) \/ is_automated_cards(custom_row)
                                \/ (uv_row = <<>> /\ custom_row = <<>>),
                 row_dict   |-> row @@ (COL_ORDER_TYPE :> infer_order_type(row, uv_row, custom_row)),
                 idx        |-> i]
        all == [i \in 1..Len(ns.rows) |-> visit(i)]
    IN  SelectSeq(all, LAMBDA v : ~v.skip)

\* the loop inserting each row_dict at the front of results
merge_results_reversed(ns, uvd, cud) ==
    LET visit(i) ==
            LET row        == ns.rows[i]
                k          == row[COL_JOIN_KEY]
                uv_row     == dict_get(uvd, k)
                custom_row == dict_get(cud, k)
            IN  [skip       |-> is_automated_cards(uv_row) \/ is_automated_cards(custom_row),
                 row_dict   |-> row @@ (COL_ORDER_TYPE :> infer_order_type(row, uv_row, custom_row)),
                 idx        |-> i]
        all == [i \in 1..Len(ns.rows) |-> visit(Len(ns.rows) + 1 - i)]
    IN  SelectSeq(all, LAMBDA v : ~v.skip)

\* the loop over ns_df.iterrows(): one entry per appended row_dict
merge_results(ns, uvd, cud) ==
    LET visit(i) ==
            LET row        == ns.rows[i]
                k          == row[COL_JOIN_KEY]
                uv_row     == dict_get(uvd, k)
                custom_row == dict_get(cud, k)
            IN  [skip       |-> is_automated_cards(uv_row) \/ is_automated_cards(custom_row),
                 row_dict   |-> row @@ (COL_ORDER_TYPE :> infer_order_type(row, uv_row, custom_row)),
                 idx        |-> i]
        all == [i \in 1..Len(ns.rows) |-> visit(i)]
    IN  SelectSeq(all, LAMBDA v : ~v.skip)

\* pd.DataFrame(results): no rows gives a frame without columns
results_frame(ns, results) ==
    IF results = <<>>
    THEN [present |-> TRUE, columns |-> {}, rows |-> <<>>]
    ELSE [present |-> TRUE,
          columns |-> ns.columns \cup {COL_ORDER_TYPE},
          rows    |-> [j \in 1..Len(results) |-> results[j].row_dict]]

merge_asana(ns0, uv0, custom0) ==
    LET ns      == with_join_key(ns0)
        uvd     == build_dict(uv0)
        cud     == build_dict(custom0)
        results == merge_results(ns, uvd, cud)
    IN  [uv_dict     |-> uvd,
         custom_dict |-> cud,
         merged      |-> results_frame(ns, results),
         src         |-> [j \in 1..Len(results) |-> results[j].idx]]

\* ---------------------------------------------------------------------
\* transform_items
\* ---------------------------------------------------------------------
\* rename_sku treating every order that is not UV as LASER
rename_sku_blank_as_laser(row) ==
    LET sku   == row[COL_ITEM]
        otype == str_upper(row[COL_ORDER_TYPE])
    IN  IF otype = OT_UV THEN dedupe_prefix(sku, UV_PREFIX)
        ELSE dedupe_prefix(sku, L_PREFIX)

rename_sku(row) ==
    LET sku   == row[COL_ITEM]
        otype == str_upper(row[COL_ORDER_TYPE])
    IN  IF otype = OT_UV THEN dedupe_prefix(sku, UV_PREFIX)
        ELSE IF otype = OT_LASER THEN dedupe_prefix(sku, L_PREFIX)
        ELSE sku

transform_items(df_fb) ==
    IF COL_ITEM \notin df_fb.columns THEN df_fb
    ELSE LET typed(row) == IF COL_ORDER_TYPE \in df_fb.columns THEN row
                           ELSE row @@ (COL_ORDER_TYPE :> OT_LASER)
         IN  [present |-> df_fb.present,
              columns |-> df_fb.columns \cup {COL_ORDER_TYPE},
              rows    |-> [i \in 1..Len(df_fb.rows) |->
                             LET row == typed(df_fb.rows[i])
                             IN  [row EXCEPT ![COL_ITEM] = rename_sku(row)]]]

\* fb_df["__ORDER_TYPE"] = merged_df["__ORDER_TYPE"], when merged_df has the column
carry_order_type(fb, merged) ==
    IF COL_ORDER_TYPE \in merged.columns
    THEN [fb EXCEPT
            !.columns = @ \cup {COL_ORDER_TYPE},
            !.rows = [i \in 1..Len(@) |->
                        @[i] @@ (COL_ORDER_TYPE :> merged.rows[i][COL_ORDER_TYPE])]]
    ELSE fb

\* ---------------------------------------------------------------------
\* Uploaded tables
\* ---------------------------------------------------------------------
HdrSectionColumn == <<"S","e","c","t","i","o","n","/","C","o","l","u","m","n">>
HdrSection == <<" ","S","e","c","t","i","o","n">>
HdrColorPrint == <<"C","o","l","o","r"," "," ","P","r","i","n","t">>
ValAutomated == <<" ","A","u","t","o","m","a","t","e","d"," ","C","a","r","d","s">>
ValBlank == <<"B","l","a","n","k">>
ValPending == <<"P","e","n","d","i","n","g">>
ValUvPrinter == <<"U","V"," ","P","r","i","n","t","e","r"," ","-"," ","R","o","l","a","n","d">>
ValLaser == <<"L","a","s","e","r">>
KeyS1Lower == <<"s","1">>
KeyS1Padded == <<" ","S","1">>
ItemWidget == <<"W","I","D","G","E","T"," ",":"," ","c","u","s","1","2","3","4","5">>
ItemWidgetUv == <<"U","V","-","W","I","D","G","E","T"," ",":"," ","c","u","s","1","2","3","4","5">>

NsKeyVals == {EMPTY, KeyS1Lower}
BoardKeyVals == {EMPTY, KeyS1Padded}
NsItems == {ItemWidget}
UvSectionVals == {ValAutomated, ValPending}
CustomSectionVals == {ValAutomated, ValBlank, ValPending}
ColorPrintVals == {ValUvPrinter, ValLaser}

NsColumns == {key_ns, COL_ITEM}
UvColumns == {key_asana, HdrSectionColumn, HdrColorPrint}
CustomColumns == {key_asana, HdrSection}

NsRows(cols) ==
    {[h \in cols |-> IF h = key_ns THEN k ELSE it] : k \in NsKeyVals, it \in NsItems}

UvRows ==
    {[h \in UvColumns |-> IF h = key_asana THEN k ELSE IF h = HdrSectionColumn THEN s ELSE c] :
        k \in BoardKeyVals, s \in UvSectionVals, c \in ColorPrintVals}

CustomRows ==
    {[h \in CustomColumns |-> IF h = key_asana THEN k ELSE s] :
        k \in BoardKeyVals, s \in CustomSectionVals}

\* a NetSuite export with or without the join key column
NsTables(n) ==
    UNION {{[present |-> TRUE, columns |-> c, rows |-> r] : r \in [1..n -> NsRows(c)]} :
             c \in {NsColumns, NsColumns \ {key_ns}}}

\* an Asana sheet is not uploaded (None), lacks the join key column, or has it
UvTables(n) ==
    {[present |-> TRUE, columns |-> UvColumns, rows |-> r] : r \in [1..n -> UvRows]}
    \cup (IF n = 0
          THEN {NoneDf, [present |-> TRUE, columns |-> UvColumns \ {key_asana}, rows |-> <<>>]}
          ELSE {})

CustomTables(n) ==
    {[present |-> TRUE, columns |-> CustomColumns, rows |-> r] : r \in [1..n -> CustomRows]}
    \cup (IF n = 0
          THEN {NoneDf, [present |-> TRUE, columns |-> CustomColumns \ {key_asana}, rows |-> <<>>]}
          ELSE {})

ItemAlphabet == {"U", "V", "L", "l", "-", ":", " "}
ItemTexts == UNION {[1..k -> ItemAlphabet] : k \in 0..MaxItemLen} \cup {ItemWidget}

UvRowForS1 ==
    (key_asana :> KeyS1Padded) @@ (HdrSectionColumn :> ValPending) @@ (HdrColorPrint :> ValUvPrinter)
CustomRowForS1 ==
    (key_asana :> KeyS1Padded) @@ (HdrSection :> ValBlank)
\* one board setting per order type: UV, BLANK, LASER
ItemBoards ==
    {<<[present |-> TRUE, columns |-> DOMAIN UvRowForS1, rows |-> <<UvRowForS1>>], NoneDf>>,
     <<NoneDf, [present |-> TRUE, columns |-> DOMAIN CustomRowForS1, rows |-> <<CustomRowForS1>>]>>,
     <<NoneDf, NoneDf>>}

\* ---------------------------------------------------------------------
\* State machine: one run of the transform
\* ---------------------------------------------------------------------
InitRest ==
    /\ uv_dict = <<>>
    /\ custom_dict = <<>>
    /\ merged_df = NoneDf
    /\ fb_df = NoneDf
    /\ src_idx = <<>>
    /\ pc = "start"

Init ==
    /\ \E n \in 0..MaxNs : ns_df \in NsTables(n)
    /\ \E nu \in 0..MaxBoardRows : \E nc \in 0..(MaxBoardRows - nu) :
          /\ asana_uv_df \in UvTables(nu)
          /\ asana_custom_df \in CustomTables(nc)
    /\ InitRest

InitItem ==
    /\ \E it \in ItemTexts :
          ns_df = [present |-> TRUE, columns |-> {key_ns, COL_ITEM},
                   rows |-> <<(key_ns :> KeyS1Lower) @@ (COL_ITEM :> it)>>]
    /\ \E b \in ItemBoards : asana_uv_df = b[1] /\ asana_custom_df = b[2]
    /\ InitRest

MergeAsana ==
    /\ pc = "start"
    /\ \E m \in {merge_asana(ns_df, asana_uv_df, asana_custom_df)} :
           /\ uv_dict' = m.uv_dict
           /\ custom_dict' = m.custom_dict
           /\ merged_df' = m.merged
           /\ src_idx' = m.src
    /\ pc' = "merged"
    /\ UNCHANGED <<ns_df, asana_uv_df, asana_custom_df, fb_df>>

ApplyMapping ==
    /\ pc = "merged"
    /\ fb_df' = carry_order_type(
                    apply_mapping(merged_df, build_default_mapping(ns_df.columns)),
                    merged_df)
    /\ pc' = "mapped"
    /\ UNCHANGED <<ns_df, asana_uv_df, asana_custom_df, uv_dict, custom_dict,
                   merged_df, src_idx>>

TransformItems ==
    /\ pc = "mapped"
    /\ fb_df' = transform_items(fb_df)
    /\ pc' = "done"
    /\ UNCHANGED <<ns_df, asana_uv_df, asana_custom_df, uv_dict, custom_dict,
                   merged_df, src_idx>>

Next == MergeAsana \/ ApplyMapping \/ TransformItems

Spec == Init /\ [][Next]_vars

SpecItem == InitItem /\ [][Next]_vars

\* ---------------------------------------------------------------------
\* Vocabulary of the properties
\* ---------------------------------------------------------------------
Merged == pc # "start"
Done == pc = "done"

NsRowNumbers == 1..Len(ns_df.rows)
OutNumbers == 1..Len(src_idx)

\* number of output records produced from primary record i
OutCount(i) == Cardinality({j \in OutNumbers : src_idx[j] = i})

\* join key of primary record i, from the uploaded table
NsKey(i) == IF key_ns \in ns_df.columns THEN norm_key(ns_df.rows[i][key_ns]) ELSE EMPTY

BoardKeyed(df) == df.present /\ key_asana \in df.columns
BoardKey(df, i) == norm_key(df.rows[i][key_asana])

\* the Section/Column status of a board record is 'automated cards'
StatusExcluded(row) ==
    \E h \in DOMAIN row :
        /\ normalize_col(h) \in STATUS_HEADERS
        /\ str_lower(str_strip(row[h])) = AUTOMATED_CARDS

\* the Board-A record signals UV: 'Color Print' contains 'uv printer'
SignalsUv(opt) ==
    /\ opt # <<>>
    /\ \E h \in DOMAIN opt[1] :
          normalize_col(h) = COLOR_PRINT /\ contains(str_lower(opt[1][h]), UV_PRINTER)

\* the Board-B record signals BLANK: its status equals 'blank'
SignalsBlank(opt) ==
    /\ opt # <<>>
    /\ \E h \in DOMAIN opt[1] :
          normalize_col(h) \in STATUS_HEADERS /\ str_lower(str_strip(opt[1][h])) = BLANK_VALUE

\* keys of the non-excluded records of a board
NonExcludedKeys(df) ==
    IF BoardKeyed(df)
    THEN {BoardKey(df, i) : i \in {n \in 1..Len(df.rows) : ~StatusExcluded(df.rows[n])}}
    ELSE {}

AllKeys(df) ==
    IF BoardKeyed(df) THEN {BoardKey(df, i) : i \in 1..Len(df.rows)} ELSE {}

\* the first record of the board with key k is an excluded one
FirstMatchExcluded(df, k) ==
    /\ BoardKeyed(df)
    /\ \E i \in 1..Len(df.rows) :
          /\ BoardKey(df, i) = k
          /\ StatusExcluded(df.rows[i])
          /\ \A j \in 1..(i - 1) : BoardKey(df, j) # k

\* the board rows looked up for output record j (uv_row, custom_row)
JoinedUv(j) == dict_get(uv_dict, merged_df.rows[j][COL_JOIN_KEY])
JoinedCustom(j) == dict_get(custom_dict, merged_df.rows[j][COL_JOIN_KEY])

Min(S) == CHOOSE x \in S : \A y \in S : x <= y

RawItem(j) == ns_df.rows[src_idx[j]][COL_ITEM]
OutItem(j) == fb_df.rows[j][COL_ITEM]
OutType(j) == fb_df.rows[j][COL_ORDER_TYPE]
StartsWithCI(s, p) == startswith(str_upper(s), str_upper(p))

C2_UvFirst_AsStated ==
    Done =>
        \A j \in OutNumbers :
            OutType(j) =
                IF SignalsUv(JoinedUv(j)) THEN OT_UV
                ELSE IF SignalsBlank(JoinedCustom(j)) THEN OT_BLANK
                ELSE OT_LASER

\* C2 amended: the BLANK signal of the joined Board-B record is checked
\* first: BLANK when Board-B signals (also when Board-A signals UV), UV only
\* when Board-B does not signal and Board-A does, LASER when neither signals.
C2_BlankFirst ==
    Done =>
        \A j \in OutNumbers :
            OutType(j) =
                IF SignalsBlank(JoinedCustom(j)) THEN OT_BLANK
                ELSE IF SignalsUv(JoinedUv(j)) THEN OT_UV
                ELSE OT_LASER

C2_Witness ==
    /\ Done
    /\ \E j \in OutNumbers :
          /\ SignalsUv(JoinedUv(j))
          /\ SignalsBlank(JoinedCustom(j))
          /\ OutType(j) = OT_BLANK

\* ---------------------------------------------------------------------
\* C3
\* ---------------------------------------------------------------------
KeptIsPreferred(df, dict) ==
    BoardKeyed(df) =>
        \A k \in DOMAIN dict :
            LET same == {i \in 1..Len(df.rows) : BoardKey(df, i) = k}
                good == {i \in same : ~StatusExcluded(df.rows[i])}
                cand == IF good # {} THEN good ELSE same
            IN  dict[k] = df.rows[Min(cand)]

\* C3: of the records of a board that share a normalized key, the lookup
\* keeps a non-excluded one whenever there is one, and among those that
\* remain tied the first in input order.
C3_DuplicatePrefersNonExcluded ==
    Merged =>
        /\ KeptIsPreferred(asana_uv_df, uv_dict)
        /\ KeptIsPreferred(asana_custom_df, custom_dict)

\* ---------------------------------------------------------------------
\* C4
\* ---------------------------------------------------------------------
\* C4: no output record is joined to, or classified from, a board record
\* whose Section/Column status is 'automated cards' (case-insensitive,
\* trimmed).
C4_ExcludedNeverContributes ==
    Done =>
        \A j \in OutNumbers :
            \A opt \in {JoinedUv(j), JoinedCustom(j),
                        dict_get(uv_dict, NsKey(src_idx[j])),
                        dict_get(custom_dict, NsKey(src_idx[j]))} :
                opt = <<>> \/ ~StatusExcluded(opt[1])

C4_Witness ==
    /\ Done
    /\ \E i \in NsRowNumbers :
          /\ OutCount(i) = 0
          /\ \/ FirstMatchExcluded(asana_uv_df, NsKey(i))
             \/ FirstMatchExcluded(asana_custom_df, NsKey(i))
    /\ \E j \in OutNumbers : JoinedUv(j) # <<>> \/ JoinedCustom(j) # <<>>

\* ---------------------------------------------------------------------
\* C5
\* ---------------------------------------------------------------------
\* C5: the empty key is not a key of either board lookup, and an output
\* record whose primary record has an empty key is joined to no board record.
C5_EmptyKeyNeverJoins ==
    Merged =>
        /\ EMPTY \notin DOMAIN uv_dict
        /\ EMPTY \notin DOMAIN custom_dict
        /\ \A j \in OutNumbers :
              NsKey(src_idx[j]) = EMPTY => JoinedUv(j) = <<>> /\ JoinedCustom(j) = <<>>

\* ---------------------------------------------------------------------
\* C6
\* ---------------------------------------------------------------------
OutDocumentNumber(i) ==
    IF key_ns \in ns_df.columns THEN ns_df.rows[i][key_ns] ELSE EMPTY

\* C6: the output records are the emitted primary records in input order:
\* their positions in the input are strictly increasing (so none is emitted
\* twice and no two are swapped), through the merge, the mapping and the
\* item renaming.
C6_OutputOrderPreserved ==
    /\ Merged =>
          /\ \A j \in OutNumbers : src_idx[j] \in NsRowNumbers
          /\ \A j \in OutNumbers : \A l \in OutNumbers : j < l => src_idx[j] < src_idx[l]
          /\ Len(merged_df.rows) = Len(src_idx)
          /\ \A j \in OutNumbers :
                merged_df.rows[j][key_ns] = OutDocumentNumber(src_idx[j])
    /\ pc \in {"mapped", "done"} =>
          /\ Len(fb_df.rows) = Len(src_idx)
          /\ \A j \in OutNumbers :
                fb_df.rows[j][COL_DOCUMENT_NUMBER] = OutDocumentNumber(src_idx[j])

C6_Witness ==
    /\ Done
    /\ Len(fb_df.rows) = 2
    /\ fb_df.rows[1][COL_DOCUMENT_NUMBER] # fb_df.rows[2][COL_DOCUMENT_NUMBER]
    /\ src_idx = <<1, 2>>

\* ---------------------------------------------------------------------
\* C7
\* ---------------------------------------------------------------------
\* C7: for a LASER order, 'L-' is prepended unless the identifier already
\* begins with 'UV-' or 'L-' (case-insensitive); an identifier that begins
\* with 'UV-' does not get an 'L-' prefix.
C7_LaserPrefixUnlessEitherPrefix ==
    Done =>
        \A j \in OutNumbers :
            OutType(j) = OT_LASER =>
                LET v == str_strip(RawItem(j)) IN
                /\ StartsWithCI(v, UV_PREFIX) => ~StartsWithCI(OutItem(j), L_PREFIX)
                /\ (v # EMPTY /\ ~StartsWithCI(v, UV_PREFIX) /\ ~StartsWithCI(v, L_PREFIX))
                      => startswith(OutItem(j), L_PREFIX)

\* ---------------------------------------------------------------------
\* C8
\* ---------------------------------------------------------------------
\* C8 as stated: the output identifier of a BLANK order begins with neither
\* 'UV-' nor 'L-', even if the raw identifier began with one of them.
C8_BlankCarriesNoPrefix_AsStated ==
    Done =>
        \A j \in OutNumbers :
            OutType(j) = OT_BLANK =>
                ~StartsWithCI(OutItem(j), UV_PREFIX) /\ ~StartsWithCI(OutItem(j), L_PREFIX)

\* C8 amended: the output identifier of a BLANK order is the raw identifier
\* unchanged: no prefix is added and none is removed.
C8_BlankUnchanged ==
    Done => \A j \in OutNumbers : OutType(j) = OT_BLANK => OutItem(j) = RawItem(j)

C8_Witness ==
    /\ Done
    /\ \E j \in OutNumbers :
          /\ OutType(j) = OT_BLANK
          /\ StartsWithCI(RawItem(j), UV_PREFIX)
          /\ OutItem(j) = RawItem(j)

\* ---------------------------------------------------------------------
\* C9
\* ---------------------------------------------------------------------
\* substring after the first ':' (the whole value when there is none)
AfterFirstColon(s) ==
    IF \E i \in 1..Len(s) : s[i] = ":"
    THEN SubSeq(s, Min({i \in 1..Len(s) : s[i] = ":"}) + 1, Len(s))
    ELSE s

Prefixes == {EMPTY, UV_PREFIX, L_PREFIX}

\* C9 as stated: the value that is prefixed is the part of the raw identifier
\* after its first ':', trimmed and upper-cased, for every category.
C9_SplitTrimUpper_AsStated ==
    Done =>
        \A j \in OutNumbers :
            \E p \in Prefixes :
                OutItem(j) = p \o str_upper(str_strip(AfterFirstColon(RawItem(j))))

\* C9 amended: the value that is prefixed is the whole raw identifier trimmed
\* of surrounding whitespace, not split at ':' and not upper-cased (a BLANK
\* identifier is not trimmed either); 'WIDGET : cus12345' on a UV order
\* yields 'UV-WIDGET : cus12345'.
C9_TrimOnly ==
    Done =>
        \A j \in OutNumbers :
            /\ \E p \in Prefixes :
                  OutItem(j) = p \o (IF OutType(j) = OT_BLANK THEN RawItem(j)
                                     ELSE str_strip(RawItem(j)))
            /\ (RawItem(j) = ItemWidget /\ OutType(j) = OT_UV) => OutItem(j) = ItemWidgetUv

C9_Witness ==
    /\ Done
    /\ \E j \in OutNumbers :
          RawItem(j) = ItemWidget /\ OutType(j) = OT_UV /\ OutItem(j) = ItemWidgetUv

\* ---------------------------------------------------------------------
\* C10
\* ---------------------------------------------------------------------
HasOwnPrefix(j) ==
    \/ OutType(j) = OT_UV /\ StartsWithCI(RawItem(j), UV_PREFIX)
    \/ OutType(j) = OT_LASER /\ StartsWithCI(RawItem(j), L_PREFIX)

\* C10 as stated: an identifier that already starts with its category's
\* prefix comes out equal to itself.
C10_PrefixedIsFixpoint_AsStated ==
    Done => \A j \in OutNumbers : HasOwnPrefix(j) => OutItem(j) = RawItem(j)

\* C10 amended: an identifier that already starts with its category's prefix
\* comes out as itself with trailing whitespace removed, no second prefix
\* added; and renaming any output identifier again changes nothing.
C10_PrefixingIdempotent ==
    Done =>
        \A j \in OutNumbers :
            /\ HasOwnPrefix(j) => OutItem(j) = str_rstrip(RawItem(j))
            /\ rename_sku(fb_df.rows[j]) = OutItem(j)

C10_Witness ==
    /\ Done
    /\ \E j \in OutNumbers :
          /\ OutType(j) = OT_LASER
          /\ startswith(RawItem(j), <<"l", "-">>)
          /\ Len(RawItem(j)) > 2
          /\ OutItem(j) = RawItem(j)
====
